---- MODULE Spec2Model ----
(***************************************************************************)
(* Verification model of dorothy: the nested click-shell navigation        *)
(* (dorothy/wrappers.py), the paginated harvest loops of OktaOrg           *)
(* (dorothy/core.py) and the option registry of Module (dorothy/core.py)   *)
(* with the execute commands of the modules that use it.                   *)
(*                                                                         *)
(* The specifications share the variables:                                 *)
(*   SpecNav   - the shell loops: one action per line read by a loop,      *)
(*               every line a single word                                  *)
(*   SpecPath  - the same with lines of two words (`discovery get-users`)  *)
(*   SpecFetch - one harvest (get_users/get_groups/get_zones/get_apps),    *)
(*               one action per iteration of its while loop                *)
(*   SpecMod   - the option registries and execute of the modules          *)
(*   SpecSet   - one set line applied to every registry of a module        *)
(***************************************************************************)
EXTENDS Integers, Sequences, FiniteSets, TLC

\* ------------------------------------------------------------------ bounds
\* greatest number of nested subshell loops above the Root loop
MaxDepth == 3
\* number of distinct page URLs an endpoint serves
MaxPages == 3
\* greatest number of records on one page
MaxRecs == 1
\* the same where lines of two words are typed as well
MaxPathDepth == 2
\* greatest number of GET requests followed in one harvest (a cyclic chain
\* of next links never ends; the model stops following it here)
MaxReq == 4
\* greatest number of options given a value in one call of set
MaxSetKeys == 2
\* greatest number of words in the name of the policy rule
MaxName == 3
\* greatest number of configuration profiles created
MaxProfiles == 3

None == "None"

Last(s) == s[Len(s)]
Pop(s) == SubSeq(s, 1, Len(s) - 1)

(***************************************************************************)
(*                      NAVIGATION: the shell tree                         *)
(***************************************************************************)

\* the root shell, @rootshell(name="dorothy")
Root == "dorothy"

\* commands registered on the root shell by main.py itself
GlobalCommands == {"list-modules", "whoami", "clear"}

\* subshells registered on the root shell (@dorothy_shell.subshell)
ModuleGroups == {"discovery", "persistence", "defense-evasion", "impact"}

\* module subshells (@<group>.subshell) and the group that is their parent
parent == [m \in {"get-users", "find-admins", "create-user",
                  "change-user-state", "modify-policy-rule"} |->
             CASE m \in {"get-users", "find-admins"} -> "discovery"
               [] m \in {"create-user", "change-user-state"} -> "persistence"
               [] OTHER -> "defense-evasion"]

ModuleShells == DOMAIN parent

\* every CustomShell below the root
SubShells == ModuleGroups \cup ModuleShells

\* the commands a shell's own click group holds once all modules are loaded
commands(n) ==
    CASE n = Root -> GlobalCommands \cup ModuleGroups
      [] n = "discovery" -> {"get-users", "find-admins"}
      [] n = "persistence" -> {"create-user", "change-user-state"}
      [] n = "defense-evasion" -> {"modify-policy-rule"}
      [] n = "impact" -> {"change-user-state", "modify-policy-rule"}
      [] n \in {"get-users", "find-admins"} -> {"execute"}
      [] n \in {"create-user", "change-user-state"} ->
             {"info", "set", "reset", "execute"}
      [] n = "modify-policy-rule" ->
             {"info", "set", "reset", "clear", "execute"}

\* the methods the shell classes define: ClickCmd's help/exit/quit for the
\* root, ClickSubShell's back/main/exit/quit in addition below it
NavigationCommands_all(n) == {"help", "exit", "quit", "main", "back"}

NavigationCommands(n) ==
    IF n = Root THEN {"help", "exit", "quit"}
    ELSE {"help", "exit", "quit", "main", "back"}

\* every line the model types at a prompt
Lines == {"help", "exit", "quit", "main", "back"} \cup GlobalCommands
           \cup SubShells \cup {"info", "set", "reset", "execute", "bogus"}

\* the words the model types after the name of a subshell
PathArgs == {"execute", "bogus"}

\* The orders in which the module groups can be registered on the root:
\* impact.py imports the defense_evasion modules and persistence's
\* change_user_state before it creates the impact group.
Position(o, g) == CHOOSE i \in 1..Len(o) : o[i] = g

Orders ==
    {o \in [1..Cardinality(ModuleGroups) -> ModuleGroups] :
        /\ \A i, j \in DOMAIN o : i # j => o[i] # o[j]
        /\ Position(o, "impact") > Position(o, "defense-evasion")
        /\ Position(o, "impact") > Position(o, "persistence")}

VARIABLES
    \* navigation
    regOrder,        \* order in which the module groups were registered
    stack,           \* shells whose cmdloop is active, Root first
    PROMPT_STACK,    \* wrappers.PROMPT_STACK
    pending_main,    \* ClickSubShell.pending_main
    pending_exit,    \* ClickSubShell.pending_exit
    frames,          \* per active loop, the CustomShell.invoke calls that
                     \* return when the loop ends
    prompt,          \* shell.prompt of every shell, as the names it shows
    last,            \* the line handled last and what became of it
    \* harvest
    server, kind, url, next_page, harvested, reqs, events, files, result, fpc,
    es,              \* ctx.obj.es: the state of the Elasticsearch client
    indexed,         \* the documents es.index has stored
    \* modules
    module,          \* the module whose shell is the current one
    module_options,  \* MODULE_OPTIONS of every module
    exec,            \* what the last command of the module shell did
    new_options,     \* the new_options argument of the set call observed
    rule_name,       \* the name the policy rule has at Okta
    config_files,    \* the configuration profiles stored in config_dir
    obj,             \* ctx.obj, the Dorothy object
    profiles_created \* how many profiles create_profile has written

navVars == <<regOrder, stack, PROMPT_STACK, pending_main, pending_exit,
            frames, prompt, last>>
fetchVars == <<server, kind, url, next_page, harvested, reqs, events, files,
               result, fpc, es, indexed>>
modVars == <<module, module_options, exec, new_options, rule_name>>
cfgVars == <<config_files, obj, profiles_created>>
vars == <<navVars, fetchVars, modVars, cfgVars>>

\* root.list_commands() at the time shell n was constructed: a group sees
\* the groups registered before it, a module shell those registered up to
\* and including its parent group
RootCommandsAt(n, o) ==
    GlobalCommands \cup
    IF n \in ModuleGroups
    THEN {g \in ModuleGroups : Position(o, g) < Position(o, n)}
    ELSE {g \in ModuleGroups : Position(o, g) <= Position(o, parent[n])}

\* CustomShell.inherit_root_commands: the names added to shell n's do_*
\* methods from the root scope
inherit_nothing(n, o) == {}

inherit_ancestors(n, o) ==
    IF n = Root THEN {}
    ELSE RootCommandsAt(n, o) \cup
         (IF n \in ModuleShells THEN commands(parent[n]) ELSE {})

inherit_everything(n, o) ==
    IF n = Root THEN {}
    ELSE RootCommandsAt(n, o) \cup UNION {commands(m) : m \in SubShells}

inherit_root_commands(n, o) ==
    IF n = Root THEN {} ELSE RootCommandsAt(n, o)

\* the names cmd.Cmd.onecmd finds a do_<name> for on shell n
Resolvable(n, o) ==
    NavigationCommands(n) \cup commands(n) \cup inherit_root_commands(n, o)

\* the group that owns the command a name resolves to: Shell.add_command
\* runs after inherit_root_commands, so a shell's own command wins
Owner(n, c) == IF c \in commands(n) THEN n ELSE Root

\* what a leaf command does, by owner and name
Behaviour(owner, c) ==
    CASE c = "clear" -> <<"click", "clear">>
      [] c = "list-modules" -> <<"core", "list_modules">>
      [] c = "whoami" -> <<"core", "whoami">>
      [] OTHER -> <<owner, c>>

\* how the callback of a leaf command can end: fail is the failure it met,
\* raised whether an exception leaves the callback
Outcome(f, r) == [fail |-> f, raised |-> r]

LeafOutcomes(owner, c) ==
    CASE c \in {"clear", "list-modules", "info", "reset"} ->
             {Outcome("none", FALSE)}
      [] c = "set" -> {Outcome("none", FALSE), Outcome("usage", FALSE)}
      [] c = "whoami" ->
             {Outcome("none", FALSE), Outcome("api", FALSE),
              Outcome("transport", TRUE)}
      [] c = "execute" /\ owner = "get-users" ->
             {Outcome("none", FALSE), Outcome("api", FALSE),
              Outcome("transport", TRUE)}
      [] c = "execute" /\ owner = "find-admins" ->
             {Outcome("none", FALSE), Outcome("api", TRUE),
              Outcome("transport", TRUE)}
      [] OTHER ->
             {Outcome("none", FALSE), Outcome("missing", FALSE),
              Outcome("api", FALSE), Outcome("transport", TRUE)}

\* CustomShell.__init__: shell.prompt is the parent's prompt followed by
\* the shell's name and " > "; a prompt is kept as the names it shows, each
\* of them followed by " > "
ConstructedPrompt(n) ==
    IF n = Root THEN <<Root>>
    ELSE IF n \in ModuleGroups THEN <<Root, n>>
    ELSE <<Root, parent[n], n>>

\* the callback of a subshell group, run by click when the group is
\* invoked: through is ctx.parent.command.name.  The modules mounted under
\* impact as well rewrite their shell's prompt here.
callback(n, through, p) ==
    CASE n = "modify-policy-rule" ->
           [p EXCEPT ![n] = <<Root, IF through = "impact" THEN "impact"
                                    ELSE "defense-evasion", n>>]
      [] n = "change-user-state" ->
           IF through = "impact" THEN [p EXCEPT ![n] = <<Root, "impact", n>>]
           ELSE p
      [] OTHER -> p

\* CustomShell.invoke: PROMPT_STACK.append(self.name) on entry and, in the
\* finally clause, PROMPT_STACK.pop() however the invocation ends
invoke_push_replacing(ps, n) == <<Root, n>>

invoke_push(ps, n) == Append(ps, n)

invoke_return_no_finally(ps, raised) == IF raised THEN ps ELSE Pop(ps)

invoke_return(ps, raised) == Pop(ps)

(***************************************************************************)
(*                      NAVIGATION: the command loops                      *)
(***************************************************************************)

Flags(pm, pe) == [pending_main |-> pm, pending_exit |-> pe]

\* ClickSubShell.precmd clears both class flags; the root shell keeps
\* cmd.Cmd's precmd, which leaves them alone
precmd_keep(n, f) == f

precmd_clear_exit_only(n, f) ==
    IF n = Root THEN f ELSE Flags(f.pending_main, FALSE)

precmd(n, f) == IF n = Root THEN f ELSE Flags(FALSE, FALSE)

\* ClickRootShell.postcmd and ClickSubShell.postcmd: whether the loop of
\* shell n ends after a command that returned stop
postcmd_root_main(n, stop, f) == stop \/ f.pending_main \/ f.pending_exit

postcmd_sub_no_exit(n, stop, f) ==
    IF n = Root THEN stop \/ f.pending_exit ELSE stop \/ f.pending_main

postcmd(n, stop, f) ==
    IF n = Root THEN stop \/ f.pending_exit
    ELSE stop \/ f.pending_main \/ f.pending_exit

\* ClickSubShell.do_back / do_main / do_exit (do_quit = do_exit) and the
\* root's ClickCmd.do_exit / do_quit: the flags they leave; all return True
do_back_as_main(n, f) == Flags(TRUE, f.pending_exit)

do_back(n, f) == f

do_main(n, f) == Flags(TRUE, f.pending_exit)

do_exit_local(n, f) == f

do_exit(n, f) == IF n = Root THEN f ELSE Flags(f.pending_main, TRUE)

\* The loop of the innermost shell has ended: its CustomShell.invoke
\* returns into the do_<name> method of the shell below, which returns
\* False to that shell's onecmd; postcmd then decides whether that loop
\* ends as well, and so on down the stack.  s is the stack of the loops
\* still active.
RECURSIVE Unwind(_, _)
Unwind(s, f) ==
    IF s = <<>> THEN s
    ELSE IF postcmd(Last(s), FALSE, f) THEN Unwind(Pop(s), f)
    ELSE s

\* CustomShell.invoke: every return of an invoke pops PROMPT_STACK once
RECURSIVE PopPrompt(_, _)
PopPrompt(ps, k) ==
    IF k = 0 THEN ps ELSE PopPrompt(invoke_return(ps, FALSE), k - 1)

\* the invoke calls that return when the loops above the first n end
RECURSIVE Returning(_, _)
Returning(fr, n) ==
    IF Len(fr) <= n THEN 0 ELSE Last(fr) + Returning(Pop(fr), n)

\* the state after the current shell handled a line: f are the flags its
\* command left, stop what the command returned, ps the PROMPT_STACK the
\* command left
HandledWith(ps, stop, f, l) ==
    LET s == IF postcmd(Last(stack), stop, f)
             THEN Unwind(Pop(stack), f) ELSE stack
    IN /\ stack' = s
       /\ PROMPT_STACK' = PopPrompt(ps, Returning(frames, Len(s)))
       /\ frames' = SubSeq(frames, 1, Len(s))
       /\ pending_main' = f.pending_main
       /\ pending_exit' = f.pending_exit
       /\ last' = l

Handled(stop, f, l) == HandledWith(PROMPT_STACK, stop, f, l)

Running == stack # <<>>
Current == Last(stack)
CurFlags == Flags(pending_main, pending_exit)

Line(c, res, o) ==
    [cmd |-> c, arg |-> "", at |-> Current, depth |-> Len(stack) - 1,
     res |-> res, effect |-> <<>>, fail |-> o.fail, raised |-> o.raised]

NoOutcome == Outcome("none", FALSE)

\* a subshell command: CustomShell.invoke pushes the name and runs the
\* subshell's cmdloop inside the current shell's onecmd
Enter(c) ==
    /\ Running
    /\ Len(stack) <= MaxDepth
    /\ c \in Resolvable(Current, regOrder) \ NavigationCommands(Current)
    /\ c \in SubShells
    /\ LET f == precmd(Current, CurFlags)
       IN /\ stack' = Append(stack, c)
          /\ PROMPT_STACK' = invoke_push(PROMPT_STACK, c)
          /\ frames' = Append(frames, 1)
          /\ prompt' = callback(c, Current, prompt)
          /\ pending_main' = f.pending_main
          /\ pending_exit' = f.pending_exit
          /\ last' = Line(c, "entered", NoOutcome)
    /\ UNCHANGED <<regOrder, fetchVars, modVars, cfgVars>>

\* a line naming a subshell g and, as its argument, a subshell m of g's own
\* click group: g is invoked with a subcommand, so click invokes m from
\* inside g's invoke and m's cmdloop runs; g's own loop does not
EnterPath(g, m) ==
    /\ Running
    /\ Len(stack) <= MaxPathDepth
    /\ g \in Resolvable(Current, regOrder) \ NavigationCommands(Current)
    /\ g \in SubShells
    /\ m \in commands(g) \cap SubShells
    /\ LET f == precmd(Current, CurFlags)
       IN /\ stack' = Append(stack, m)
          /\ PROMPT_STACK' = invoke_push(invoke_push(PROMPT_STACK, g), m)
          /\ frames' = Append(frames, 2)
          /\ prompt' = callback(m, g, callback(g, Current, prompt))
          /\ pending_main' = f.pending_main
          /\ pending_exit' = f.pending_exit
          /\ last' = [Line(g, "entered", NoOutcome) EXCEPT !.arg = m]
    /\ UNCHANGED <<regOrder, fetchVars, modVars, cfgVars>>

Back ==
    /\ Running
    /\ "back" \in Resolvable(Current, regOrder)
    /\ Handled(TRUE, do_back(Current, precmd(Current, CurFlags)),
               Line("back", "stopped", NoOutcome))
    /\ UNCHANGED <<regOrder, prompt, fetchVars, modVars, cfgVars>>

Main ==
    /\ Running
    /\ "main" \in Resolvable(Current, regOrder)
    /\ Handled(TRUE, do_main(Current, precmd(Current, CurFlags)),
               Line("main", "stopped", NoOutcome))
    /\ UNCHANGED <<regOrder, prompt, fetchVars, modVars, cfgVars>>

Exit(c) ==
    /\ Running
    /\ c \in {"exit", "quit"}
    /\ Handled(TRUE, do_exit(Current, precmd(Current, CurFlags)),
               Line(c, "stopped", NoOutcome))
    /\ UNCHANGED <<regOrder, prompt, fetchVars, modVars, cfgVars>>

\* do_help prints and returns None
Help ==
    /\ Running
    /\ Handled(FALSE, precmd(Current, CurFlags), Line("help", "ran", NoOutcome))
    /\ UNCHANGED <<regOrder, prompt, fetchVars, modVars, cfgVars>>

\* a command that is no subshell: click_shell's invoke wrapper runs the
\* callback, reports whatever it raises and always returns False
RunLeaf(c) ==
    /\ Running
    /\ c \in Resolvable(Current, regOrder) \ NavigationCommands(Current)
    /\ c \notin SubShells
    /\ \E o \in LeafOutcomes(Owner(Current, c), c) :
          Handled(FALSE, precmd(Current, CurFlags),
                  [Line(c, "ran", o) EXCEPT
                      !.effect = Behaviour(Owner(Current, c), c)])
    /\ UNCHANGED <<regOrder, prompt, fetchVars, modVars, cfgVars>>

\* a line naming a subshell g and, as its argument, a word c that is no
\* subshell of g: g's invoke pushes its name; click then runs the leaf
\* command c of g's group, or raises UsageError when the group has no
\* command c, and no loop is run; g's invoke pops on the way out and the
\* wrapper around it reports the exception, if any, and returns False
RunPath(g, c) ==
    /\ Running
    /\ g \in Resolvable(Current, regOrder) \ NavigationCommands(Current)
    /\ g \in SubShells
    /\ c \notin commands(g) \cap SubShells
    /\ \E o \in IF c \in commands(g) THEN LeafOutcomes(g, c)
                 ELSE {Outcome("notfound", TRUE)} :
          /\ HandledWith(invoke_return(invoke_push(PROMPT_STACK, g),
                                       o.raised),
                         FALSE, precmd(Current, CurFlags),
                         [Line(g, IF c \in commands(g) THEN "ran"
                                  ELSE "notfound", o)
                            EXCEPT !.arg = c,
                                   !.effect = IF c \in commands(g)
                                              THEN Behaviour(g, c)
                                              ELSE <<>>])
          /\ prompt' = IF c \in commands(g)
                       THEN callback(g, Current, prompt) ELSE prompt
    /\ UNCHANGED <<regOrder, fetchVars, modVars, cfgVars>>

\* cmd.Cmd.default: no do_<name> on this shell; prints and returns None
NotFound(c) ==
    /\ Running
    /\ c \notin Resolvable(Current, regOrder)
    /\ Handled(FALSE, precmd(Current, CurFlags),
               Line(c, "notfound", Outcome("notfound", FALSE)))
    /\ UNCHANGED <<regOrder, prompt, fetchVars, modVars, cfgVars>>

\* end of input at the prompt: cmdloop breaks without precmd or postcmd
Eof ==
    /\ Running
    /\ LET s == Unwind(Pop(stack), CurFlags)
       IN /\ stack' = s
          /\ PROMPT_STACK' = PopPrompt(PROMPT_STACK, Returning(frames, Len(s)))
          /\ frames' = SubSeq(frames, 1, Len(s))
          /\ last' = Line("EOF", "stopped", NoOutcome)
    /\ UNCHANGED <<pending_main, pending_exit, regOrder, prompt, fetchVars,
                   modVars, cfgVars>>

(***************************************************************************)
(*                 HARVEST: OktaOrg.get_users and its kin                  *)
(***************************************************************************)

\* the four harvests; their loops differ only in the path and the wording
Kinds == {"users", "groups", "zones", "apps"}

\* page URLs; BaseUrl is f"{self.base_url}/<kind>"
Urls == 1..MaxPages
BaseUrl == 1
\* no next link / next_page = None
NoUrl == 0

\* what the endpoint answers to a GET of one URL: a page of n records with
\* or without a next link, a non-success status, or no answer at all
\* (session.get raises)
Responses ==
    [status : {"ok"}, n : 0..MaxRecs, next : {NoUrl} \cup Urls]
      \cup {[status |-> "error", n |-> 0, next |-> NoUrl],
            [status |-> "transport", n |-> 0, next |-> NoUrl]}

Servers == [Urls -> Responses]

\* response.json() of the page at URL u holding n records
Records(u, n) == [k \in 1..n |-> 10 * u + k]

\* a call of index_event
Event(t, e, n) == [event_type |-> t, event |-> e, n |-> n]

\* ctx.obj.es: no client configured (None), a client whose index call
\* succeeds, a client whose index call raises
Sinks == {"none", "up", "down"}

\* index_event: whether an exception leaves it and the documents it adds
\* to the index; es.index is called inside try/except Exception and only
\* `if es`
index_event_unguarded(sink, e) ==
    [raised |-> sink = "down", docs |-> IF sink = "up" THEN <<e>> ELSE <<>>]

index_event(sink, e) ==
    [raised |-> FALSE, docs |-> IF sink = "up" THEN <<e>> ELSE <<>>]

\* LOGGER.info / LOGGER.error followed by index_event
Emit(e) ==
    /\ events' = Append(events, e)
    /\ indexed' = indexed \o index_event(es, e).docs

\* an exception left index_event and leaves the harvest
Aborted(e) ==
    /\ Emit(e)
    /\ fpc' = "raised"
    /\ UNCHANGED <<result, harvested, files, url, next_page>>

\* what the harvest hands to its caller
ReturnNone == [none |-> TRUE, value |-> <<>>]
Return(v) == [none |-> FALSE, value |-> v]

\* no harvest is running; fixed is the endpoint's content, sink the
\* state of the Elasticsearch client
FetchIdleWith(fixed, sink) ==
    /\ es = sink
    /\ indexed = <<>>
    /\ server = fixed
    /\ kind = "users"
    /\ url = BaseUrl
    /\ next_page = NoUrl
    /\ harvested = <<>>
    /\ reqs = <<>>
    /\ events = <<>>
    /\ files = {}
    /\ result = ReturnNone
    /\ fpc = "idle"

FetchIdle(fixed) == FetchIdleWith(fixed, "none")

EmptyServer == [u \in Urls |-> [status |-> "ok", n |-> 0, next |-> NoUrl]]

\* entry of a harvest up to its while loop
Begin(k) ==
    /\ fpc = "idle"
    /\ kind' = k
    /\ url' = BaseUrl
    /\ next_page' = 1
    /\ harvested' = <<>>
    /\ UNCHANGED <<server, reqs, events, files, result, es, indexed>>
    /\ fpc' = "loop"
    /\ UNCHANGED <<navVars, modVars, cfgVars>>

get_users == Begin("users")
get_groups == Begin("groups")
get_zones == Begin("zones")
get_apps == Begin("apps")

\* the else branch of `if response.ok`: log, index, print and return
OnErrorContinue(r) ==
    /\ Emit(Event("ERROR", "error", 0))
    /\ UNCHANGED <<result, harvested, files, url, next_page, fpc>>

OnError(r) ==
    IF index_event(es, Event("ERROR", "error", 0)).raised
    THEN Aborted(Event("ERROR", "error", 0))
    ELSE /\ Emit(Event("ERROR", "error", 0))
         /\ result' = ReturnNone
         /\ fpc' = "returned"
         /\ UNCHANGED <<harvested, files, url, next_page>>

\* the except branch sets response = None, and `response.ok` then raises
\* AttributeError out of the harvest
OnTransportRetry ==
    /\ Emit(Event("ERROR", "exception", 0))
    /\ UNCHANGED <<result, harvested, files, url, next_page, fpc>>

OnTransport ==
    /\ Emit(Event("ERROR", "exception", 0))
    /\ fpc' = "raised"
    /\ UNCHANGED <<result, harvested, files, url, next_page>>

\* `if links.get("next")`: the cursor for the next iteration
FollowNone(r) == /\ next_page' = NoUrl
                 /\ url' = url

FollowStay(r) == /\ next_page' = url
                 /\ url' = url

Follow(r) ==
    IF r.next # NoUrl THEN /\ next_page' = r.next
                           /\ url' = r.next
    ELSE /\ next_page' = NoUrl
         /\ url' = url

\* one iteration of `while next_page`
GetPage ==
    /\ fpc = "loop"
    /\ next_page # NoUrl
    /\ Len(reqs) < MaxReq
    /\ reqs' = Append(reqs, url)
    /\ LET r == server[url]
       IN CASE r.status = "transport" -> OnTransport
            [] r.status = "error" -> OnError(r)
            [] OTHER ->
                 IF index_event(es, Event("INFO", "retrieved", r.n)).raised
                 THEN Aborted(Event("INFO", "retrieved", r.n))
                 ELSE /\ Emit(Event("INFO", "retrieved", r.n))
                      /\ harvested' = harvested \o Records(url, r.n)
                      /\ Follow(r)
                      /\ UNCHANGED <<result, files, fpc>>
    /\ UNCHANGED <<server, kind, es, navVars, modVars, cfgVars>>

\* after the loop: the summary, the two confirmations and the return
SummaryAlways ==
    /\ fpc = "loop"
    /\ next_page = NoUrl
    /\ Emit(Event("INFO", "total", Len(harvested)))
    /\ result' = Return(harvested)
    /\ fpc' = "returned"
    /\ UNCHANGED <<server, kind, url, next_page, harvested, reqs, files, es,
                   navVars, modVars, cfgVars>>

Summary ==
    /\ fpc = "loop"
    /\ next_page = NoUrl
    /\ IF harvested # <<>>
       THEN IF index_event(es, Event("INFO", "total",
                                     Len(harvested))).raised
            THEN /\ Emit(Event("INFO", "total", Len(harvested)))
                 /\ fpc' = "raised"
                 /\ UNCHANGED <<result, files>>
            ELSE /\ Emit(Event("INFO", "total", Len(harvested)))
                 /\ \E save \in BOOLEAN :
                      files' = IF save
                               THEN files \cup {[name |-> kind,
                                                 content |-> harvested]}
                               ELSE files
                 /\ result' = Return(harvested)
                 /\ fpc' = "returned"
       ELSE /\ UNCHANGED <<events, indexed, files>>
            /\ result' = Return(harvested)
            /\ fpc' = "returned"
    /\ UNCHANGED <<server, kind, url, next_page, harvested, reqs, es,
                   navVars, modVars, cfgVars>>

(***************************************************************************)
(*                 MODULES: the option registry (core.Module)              *)
(***************************************************************************)

\* option values: None, a string (a sequence of characters) or a list of
\* strings
NoneValue == [t |-> "none", s |-> <<>>, l |-> <<>>]
Str(s) == [t |-> "str", s |-> s, l |-> <<>>]
List(l) == [t |-> "list", s |-> <<>>, l |-> l]

\* the strings typed as option values
InputStrings ==
    {<<>>, <<" ", "a", " ">>, <<"a", ",", "b", ",", "c">>, <<" ">>}

\* Python truthiness of a value: `not v.get("value")`, `elif v`
Truthy(v) ==
    \/ v.t = "str" /\ v.s # <<>>
    \/ v.t = "list" /\ v.l # <<>>

\* str.strip()
RECURSIVE lstrip(_)
lstrip(s) == IF s # <<>> /\ Head(s) = " " THEN lstrip(Tail(s)) ELSE s

RECURSIVE rstrip(_)
rstrip(s) == IF s # <<>> /\ Last(s) = " " THEN rstrip(Pop(s)) ELSE s

strip(s) == rstrip(lstrip(s))

\* str.split(","): acc is the item being read
RECURSIVE SplitFrom(_, _)
SplitFrom(s, acc) ==
    IF s = <<>> THEN <<acc>>
    ELSE IF Head(s) = "," THEN <<acc>> \o SplitFrom(Tail(s), <<>>)
    ELSE SplitFrom(Tail(s), Append(acc, Head(s)))

split_whole(s) == <<s>>

split(s) == SplitFrom(s, <<>>)

\* MODULE_OPTIONS of a module as created at load time, in dict order
Option(name, required) ==
    [name |-> name, value |-> NoneValue, required |-> required,
     help |-> <<"help", name>>]

MODULE_OPTIONS ==
    [m \in {"create-user", "modify-policy-rule", "get-user"} |->
       CASE m = "create-user" ->
              <<Option("first_name", TRUE), Option("last_name", TRUE),
                Option("email", TRUE), Option("login", TRUE),
                Option("group_ids", FALSE)>>
         [] m = "modify-policy-rule" ->
              <<Option("policy_id", TRUE), Option("rule_id", TRUE)>>
         [] OTHER -> <<Option("id", TRUE)>>]

OptionModules == DOMAIN MODULE_OPTIONS

Names(opts) == {opts[i].name : i \in DOMAIN opts}

\* the keyword arguments click hands to set: every option of the module,
\* None for those not given on the line; at most n options are given
InputValues == {NoneValue} \cup {Str(s) : s \in InputStrings}

RECURSIVE UpdatesUpTo(_, _)
UpdatesUpTo(names, n) ==
    IF n = 0 THEN {[k \in names |-> NoneValue]}
    ELSE {[u EXCEPT ![k] = v] :
             u \in UpdatesUpTo(names, n - 1), k \in names, v \in InputValues}

UpdatesCreateUser ==
    UpdatesUpTo(Names(MODULE_OPTIONS["create-user"]), MaxSetKeys)
UpdatesModifyPolicyRule ==
    UpdatesUpTo(Names(MODULE_OPTIONS["modify-policy-rule"]), MaxSetKeys)
UpdatesGetUser ==
    UpdatesUpTo(Names(MODULE_OPTIONS["get-user"]), MaxSetKeys)

Updates(m) ==
    CASE m = "create-user" -> UpdatesCreateUser
      [] m = "modify-policy-rule" -> UpdatesModifyPolicyRule
      [] OTHER -> UpdatesGetUser

\* Module.set_options: the value stored for key k given v, old the value
\* stored before
Stored_raw(k, v, old) ==
    IF k = "group_ids" /\ Truthy(v) THEN List(split(strip(v.s)))
    ELSE IF Truthy(v) THEN Str(v.s)
    ELSE old

Stored(k, v, old) ==
    IF k = "group_ids" /\ Truthy(v) THEN List(split(strip(v.s)))
    ELSE IF Truthy(v) THEN Str(strip(v.s))
    ELSE old

AllNone(u) == \A k \in DOMAIN u : u[k] = NoneValue

\* the keyword arguments of a set line that names no option
NullUpdate(m) == [k \in Names(MODULE_OPTIONS[m]) |-> NoneValue]

set_options_overwrite(opts, u) ==
    [i \in DOMAIN opts |-> [opts[i] EXCEPT !.value = u[opts[i].name]]]

set_options(opts, u) ==
    IF AllNone(u) THEN opts
    ELSE [i \in DOMAIN opts |->
            [opts[i] EXCEPT !.value = Stored(opts[i].name, u[opts[i].name],
                                             opts[i].value)]]

\* Module.reset_options
reset_first_only(opts) ==
    [i \in DOMAIN opts |->
        IF i = 1 THEN [opts[i] EXCEPT !.value = NoneValue] ELSE opts[i]]

reset_options(opts) ==
    [i \in DOMAIN opts |-> [opts[i] EXCEPT !.value = NoneValue]]

\* Module.check_options: both branches of the loop body return, so only
\* the first option is looked at (an empty registry yields None, falsy)
check_all_options(opts) ==
    \E i \in DOMAIN opts : opts[i].required /\ ~Truthy(opts[i].value)

check_options(opts) ==
    IF opts = <<>> THEN FALSE
    ELSE opts[1].required /\ ~Truthy(opts[1].value)

\* the option named in the message check_options prints when it reports
\* an error: the key of the iteration that returned
check_reported(opts) == IF check_options(opts) THEN opts[1].name ELSE None

\* what a command of the module shell did
Exec(c, refused, prompts, requests, raised, missing) ==
    [cmd |-> c, refused |-> refused, prompts |-> prompts,
     requests |-> requests, raised |-> raised, missing |-> missing]

\* whether some required option holds no value (recorded at execute)
RequiredUnset(opts) ==
    \E i \in DOMAIN opts : opts[i].required /\ ~Truthy(opts[i].value)

ModIdle(m) ==
    /\ module = m
    /\ module_options = MODULE_OPTIONS
    /\ exec = Exec("none", FALSE, 0, 0, FALSE, FALSE)
    /\ new_options = NullUpdate(m)
    /\ rule_name = <<"rule">>

Statuses == {"ok", "error", "transport"}

\* the callback of set: MODULE.set_options(ctx, locals()) with the keyword
\* arguments u
set_with(u) ==
    /\ module_options' =
         [module_options EXCEPT ![module] = set_options(@, u)]
    /\ exec' = Exec(IF AllNone(u) THEN "usage" ELSE "set",
                    FALSE, 0, 0, FALSE, FALSE)

\* the set command of a module shell
set ==
    /\ \E u \in Updates(module) : set_with(u)
    /\ UNCHANGED <<module, rule_name, new_options, navVars, fetchVars, cfgVars>>

\* the reset command of a module shell
reset ==
    /\ module_options' = [module_options EXCEPT ![module] = reset_options(@)]
    /\ exec' = Exec("reset", FALSE, 0, 0, FALSE, FALSE)
    /\ UNCHANGED <<module, rule_name, new_options, navVars, fetchVars, cfgVars>>

\* the info command of a module shell (Module.print_info)
info ==
    /\ exec' = Exec("info", FALSE, 0, 0, FALSE, FALSE)
    /\ UNCHANGED <<module, rule_name, module_options, new_options, navVars,
                   fetchVars, cfgVars>>

\* the body of execute below the check, by module: the prompts shown, the
\* requests sent and whether an exception leaves it.  A request that gets
\* no answer leaves response = None and `response.ok` raises.
\* create-user: the password prompt, then one POST
create_user_body ==
    /\ \E st \in Statuses :
         exec' = Exec("execute", FALSE, 1, 1, st = "transport",
                      RequiredUnset(module_options[module]))
    /\ UNCHANGED rule_name

\* rename_policy_rule: the rule's name after a PUT of new_name that was
\* answered with status st
rename_policy_rule(name, new_name, st) ==
    IF st = "ok" THEN new_name ELSE name

\* modify-policy-rule: GET the rule; if there is one, a PUT of its name
\* followed by TEMP_STRING and a PUT of its name
modify_policy_rule_body ==
    /\ Len(rule_name) < MaxName
    /\ \E st1, st2, st3 \in Statuses :
        LET n == IF st1 # "ok" THEN 1 ELSE IF st2 = "transport" THEN 2 ELSE 3
            r == \/ st1 = "transport"
                 \/ st1 = "ok" /\ "transport" \in {st2, st3}
            original_name == rule_name
            new_name == rule_name \o <<"TEMP_STRING">>
            renamed == rename_policy_rule(rule_name, new_name, st2)
        IN /\ exec' = Exec("execute", FALSE, 0, n, r,
                           RequiredUnset(module_options[module]))
           /\ rule_name' =
                 IF st1 # "ok" THEN rule_name
                 ELSE IF st2 = "transport" THEN renamed
                 ELSE rename_policy_rule(renamed, original_name, st3)

\* get-user: GET the user, then the user's groups; without a user object
\* `user.get_groups` raises
get_user_body ==
    /\ \E st1, st2 \in Statuses :
         LET n == IF st1 = "ok" THEN 2 ELSE 1
             r == st1 # "ok" \/ st2 = "transport"
         IN exec' = Exec("execute", FALSE, 0, n, r,
                         RequiredUnset(module_options[module]))
    /\ UNCHANGED rule_name

\* the callback of execute: the check, then the module's body
execute_body ==
    IF check_options(module_options[module])
    THEN /\ exec' = Exec("execute", TRUE, 0, 0, FALSE,
                         RequiredUnset(module_options[module]))
         /\ UNCHANGED rule_name
    ELSE CASE module = "create-user" -> create_user_body
           [] module = "modify-policy-rule" -> modify_policy_rule_body
           [] OTHER -> get_user_body

\* the execute command of a module shell
execute ==
    /\ execute_body
    /\ UNCHANGED <<module, module_options, new_options, navVars, fetchVars, cfgVars>>

\* the same commands as lines typed in the module's shell: precmd, the
\* callback inside click_shell's invoke wrapper, postcmd
set_line ==
    /\ Running
    /\ Current = module
    /\ \E u \in Updates(module) : set_with(u)
    /\ Handled(FALSE, precmd(Current, CurFlags),
               Line("set", "ran", NoOutcome))
    /\ UNCHANGED <<module, rule_name, new_options, regOrder, prompt, fetchVars, cfgVars>>

reset_line ==
    /\ Running
    /\ Current = module
    /\ module_options' = [module_options EXCEPT ![module] = reset_options(@)]
    /\ exec' = Exec("reset", FALSE, 0, 0, FALSE, FALSE)
    /\ Handled(FALSE, precmd(Current, CurFlags),
               Line("reset", "ran", NoOutcome))
    /\ UNCHANGED <<module, rule_name, new_options, regOrder, prompt, fetchVars, cfgVars>>

info_line_resetting ==
    /\ Running
    /\ Current = module
    /\ module_options' = [module_options EXCEPT ![module] = reset_options(@)]
    /\ exec' = Exec("info", FALSE, 0, 0, FALSE, FALSE)
    /\ Handled(FALSE, precmd(Current, CurFlags),
               Line("info", "ran", NoOutcome))
    /\ UNCHANGED <<module, rule_name, new_options, regOrder, prompt, fetchVars, cfgVars>>

info_line ==
    /\ Running
    /\ Current = module
    /\ exec' = Exec("info", FALSE, 0, 0, FALSE, FALSE)
    /\ Handled(FALSE, precmd(Current, CurFlags),
               Line("info", "ran", NoOutcome))
    /\ UNCHANGED <<module, rule_name, module_options, new_options, regOrder,
                   prompt, fetchVars, cfgVars>>

execute_line ==
    /\ Running
    /\ Current = module
    /\ execute_body
    /\ Handled(FALSE, precmd(Current, CurFlags),
               [Line("execute", "ran", NoOutcome)
                   EXCEPT !.raised = exec'.raised])
    /\ UNCHANGED <<module, module_options, new_options, regOrder, prompt,
                   fetchVars, cfgVars>>

\* the values set_options can have left in option k
StoredValues(k) == {Stored(k, v, NoneValue) : v \in InputValues}

AllStoredValues ==
    UNION {StoredValues(k) : k \in
              UNION {Names(MODULE_OPTIONS[m]) : m \in OptionModules}}

\* the registries of module m that earlier set and reset lines can have
\* left: every option holds None or a value stored for it
Registries(m) ==
    LET opts == MODULE_OPTIONS[m]
    IN {[i \in DOMAIN opts |-> [opts[i] EXCEPT !.value = g[i]]] :
          g \in {f \in [DOMAIN opts -> AllStoredValues] :
                   \A i \in DOMAIN opts :
                       f[i] \in StoredValues(opts[i].name)}}

\* one set line typed at the prompt of the module shell, its keyword
\* arguments kept in new_options
set_call ==
    /\ exec.cmd = "none"
    /\ \E u \in Updates(module) :
          /\ set_with(u)
          /\ new_options' = u
    /\ UNCHANGED <<module, rule_name, navVars, fetchVars, cfgVars>>

\* ---------------------------------------------------------------------
\* configuration profiles (config.py, main.py, manage_config.py)

OktaUrls == {"u1", "u2"}
ApiTokens == {"t1", "t2"}

\* a configuration profile as create_profile writes it
Config(id, okta_url, api_token) ==
    [id |-> id, okta_url |-> okta_url, api_token |-> api_token]

\* OktaOrg(api_token, base_url)
OktaOrg(api_token, base_url) == [api_token |-> api_token, base_url |-> base_url]

\* setup_elasticsearch_client(okta_url): the client set up for that URL
setup_elasticsearch_client(okta_url) == <<"es", okta_url>>

\* main: ctx.obj = Dorothy(okta=OktaOrg(...), base_url=..., ...); the
\* attribute es_client does not exist yet
Dorothy(config) ==
    [okta |-> OktaOrg(config.api_token, config.okta_url),
     base_url |-> config.okta_url,
     api_token |-> config.api_token,
     profile_id |-> config.id,
     es |-> setup_elasticsearch_client(config.okta_url),
     es_client |-> None]

\* "Update the Dorothy class object with the values from the chosen
\* configuration profile": the four assignments of manage_config
update(o, config) ==
    [o EXCEPT !.base_url = config.okta_url,
              !.api_token = config.api_token,
              !.profile_id = config.id,
              !.es_client = setup_elasticsearch_client(config.okta_url)]

\* the profiles create_profile can write next: a fresh id, the URL and the
\* token typed
NewConfigs ==
    {Config(profiles_created + 1, u, t) : u \in OktaUrls, t \in ApiTokens}

\* the shell before any profile is modelled
CfgIdle ==
    /\ config_files = {}
    /\ profiles_created = 0
    /\ obj = Dorothy(Config(0, "u1", "t1"))

\* main: load an existing profile or create one, then build ctx.obj
CfgInit ==
    \E existing \in {{}} \cup {{Config(1, u, t)} : u \in OktaUrls,
                                                   t \in ApiTokens} :
        \/ /\ existing # {}
           /\ \E config \in existing :
                 /\ config_files = existing
                 /\ profiles_created = 1
                 /\ obj = Dorothy(config)
        \/ \E u \in OktaUrls, t \in ApiTokens :
              LET config == Config(Cardinality(existing) + 1, u, t)
              IN /\ config_files = existing \cup {config}
                 /\ profiles_created = Cardinality(existing) + 1
                 /\ obj = Dorothy(config)

\* manage-config > create-new-profile
create_new_profile ==
    /\ profiles_created < MaxProfiles
    /\ \E new \in NewConfigs :
          /\ config_files' = config_files \cup {new}
          /\ profiles_created' = profiles_created + 1
          /\ \E config \in config_files' : obj' = update(obj, config)
    /\ UNCHANGED <<navVars, fetchVars, modVars>>

\* manage-config > load-profile
load_profile ==
    /\ config_files # {}
    /\ \E config \in config_files : obj' = update(obj, config)
    /\ UNCHANGED <<config_files, profiles_created, navVars, fetchVars,
                   modVars>>

\* manage-config > delete-profile: the profile chosen, the confirmation,
\* then a profile is loaded or created
delete_profile ==
    /\ config_files # {}
    /\ \E chosen \in config_files, confirmed \in BOOLEAN :
          LET left == IF confirmed THEN config_files \ {chosen}
                      ELSE config_files
          IN \/ /\ left # {}
                /\ config_files' = left
                /\ UNCHANGED profiles_created
                /\ \E config \in left : obj' = update(obj, config)
             \/ /\ profiles_created < MaxProfiles
                /\ \E new \in NewConfigs :
                      /\ config_files' = left \cup {new}
                      /\ profiles_created' = profiles_created + 1
                      /\ obj' = update(obj, new)
    /\ UNCHANGED <<navVars, fetchVars, modVars>>

(***************************************************************************)
(*                           Specifications                                *)
(***************************************************************************)

NavInit(o) ==
    /\ regOrder = o
    /\ stack = <<Root>>
    /\ PROMPT_STACK = <<Root>>
    /\ pending_main = FALSE
    /\ pending_exit = FALSE
    /\ frames = <<1>>
    /\ prompt = [n \in {Root} \cup SubShells |-> ConstructedPrompt(n)]
    /\ last = [cmd |-> "none", arg |-> "", at |-> Root, depth |-> 0,
               res |-> "init", effect |-> <<>>, fail |-> "none",
               raised |-> FALSE]

SomeOrder == CHOOSE o \in Orders : TRUE

\* the shell after start-up, for every registration order
InitNav ==
    /\ \E o \in Orders : NavInit(o)
    /\ CfgIdle
    /\ FetchIdle(EmptyServer)
    /\ ModIdle("get-user")

NextNav ==
    \/ \E c \in Lines : Enter(c)
    \/ Back
    \/ Main
    \/ \E c \in Lines : Exit(c)
    \/ Help
    \/ \E c \in Lines : RunLeaf(c)
    \/ \E c \in Lines : NotFound(c)
    \/ Eof

SpecNav == InitNav /\ [][NextNav]_vars

\* the shell where lines of one word and of two words are typed
InitPath ==
    /\ NavInit(SomeOrder)
    /\ CfgIdle
    /\ FetchIdle(EmptyServer)
    /\ ModIdle("get-user")

NextPath ==
    \/ /\ Len(stack) <= MaxPathDepth
       /\ \E c \in Lines : Enter(c)
    \/ \E g, m \in SubShells : EnterPath(g, m)
    \/ \E g \in SubShells, c \in PathArgs : RunPath(g, c)
    \/ Back
    \/ Main
    \/ \E c \in Lines : Exit(c)
    \/ Help
    \/ \E c \in Lines : RunLeaf(c)
    \/ \E c \in Lines : NotFound(c)
    \/ Eof

SpecPath == InitPath /\ [][NextPath]_vars

\* the shell with the option registry of modify-policy-rule, the module
\* shell mounted under defense-evasion and under impact
InitOpt ==
    /\ NavInit(SomeOrder)
    /\ CfgIdle
    /\ FetchIdle(EmptyServer)
    /\ ModIdle("modify-policy-rule")

NextOpt ==
    \/ /\ Len(stack) <= MaxPathDepth
       /\ \E c \in Lines : Enter(c)
    \/ Back
    \/ Main
    \/ NotFound("bogus")
    \/ set_line
    \/ reset_line
    \/ info_line
    \/ execute_line

SpecOpt == InitOpt /\ [][NextOpt]_vars

\* the profiles and ctx.obj
InitProfile ==
    /\ NavInit(SomeOrder)
    /\ FetchIdle(EmptyServer)
    /\ ModIdle("get-user")
    /\ CfgInit

NextProfile ==
    \/ create_new_profile
    \/ load_profile
    \/ delete_profile

SpecProfile == InitProfile /\ [][NextProfile]_vars

\* a harvest against every endpoint
InitFetch ==
    /\ NavInit(SomeOrder)
    /\ CfgIdle
    /\ \E srv \in Servers, sink \in Sinks : FetchIdleWith(srv, sink)
    /\ ModIdle("get-user")

NextFetch ==
    \/ get_users
    \/ get_groups
    \/ get_zones
    \/ get_apps
    \/ GetPage
    \/ Summary

SpecFetch == InitFetch /\ [][NextFetch]_vars

\* the harvests without an Elasticsearch client, where the harvest,
\* single-threaded and blocking, always takes its next step
InitFetchFair ==
    /\ NavInit(SomeOrder)
    /\ CfgIdle
    /\ \E srv \in Servers : FetchIdle(srv)
    /\ ModIdle("get-user")

SpecFetchFair == InitFetchFair /\ [][NextFetch]_vars /\ WF_vars(NextFetch)

\* the shell of every module with options
InitMod ==
    /\ NavInit(SomeOrder)
    /\ CfgIdle
    /\ FetchIdle(EmptyServer)
    /\ \E m \in OptionModules : ModIdle(m)

NextMod ==
    \/ set
    \/ reset
    \/ info
    \/ execute

SpecMod == InitMod /\ [][NextMod]_vars

\* one set line typed in the shell of every module with options, whatever
\* its registry holds
InitSet ==
    /\ NavInit(SomeOrder)
    /\ CfgIdle
    /\ FetchIdle(EmptyServer)
    /\ \E m \in OptionModules :
          /\ module = m
          /\ \E r \in Registries(m) :
                module_options = [MODULE_OPTIONS EXCEPT ![m] = r]
          /\ exec = Exec("none", FALSE, 0, 0, FALSE, FALSE)
          /\ new_options = NullUpdate(m)
          /\ rule_name = <<"rule">>

NextSet == set_call

SpecSet == InitSet /\ [][NextSet]_vars

(***************************************************************************)
(*                               Claims                                    *)
(***************************************************************************)

\* the failures a command can meet
Failures == {"api", "transport", "missing", "notfound"}

\* C1: `main` typed in a subshell at any depth ends every subshell loop in
\* that one step and leaves the Root loop running at its prompt.
C1_MainReturnsToRoot ==
    (last.cmd = "main" /\ last.depth >= 1) =>
        /\ stack = <<Root>>
        /\ last.res = "stopped"

C1_Witness ==
    /\ last.cmd = "main"
    /\ last.depth >= 2
    /\ stack = <<Root>>

\* C2: `exit` or `quit` typed in a subshell at any depth ends every
\* enclosing loop, the Root loop included: no shell is left to prompt.
C2_ExitEndsSession ==
    (last.cmd \in {"exit", "quit"} /\ last.depth >= 1) => stack = <<>>

C2_Witness ==
    /\ last.cmd = "exit"
    /\ last.depth >= 3
    /\ stack = <<>>

\* C3: `back` typed in a subshell ends the innermost loop only: the stack
\* of active shells afterwards is the stack before without its top, so
\* the shell one level down is the current one, whatever came before.
C3_BackPopsOne ==
    [][Back => /\ stack' = Pop(stack)
               /\ stack' # <<>>
               /\ Last(stack') = stack[Len(stack) - 1]]_vars

C3_Witness ==
    /\ last.cmd = "back"
    /\ last.depth >= 2
    /\ Len(stack) = last.depth
    /\ pending_main = FALSE

\* C4 as stated: every command registered on the Root (the global commands
\* and the module groups) is found when typed in any subshell.
C4_EveryRootCommandEverywhere ==
    (last.cmd \in commands(Root) /\ last.depth >= 1) => last.res # "notfound"

\* C4 as amended: a command that was registered on the Root when the
\* subshell was constructed (always list-modules, whoami and clear) is
\* found when typed in that subshell at any depth, and a leaf command among
\* them does there what it does at the Root.
C4_RootCommandsAsOfConstruction ==
    (last.depth >= 1 /\ last.cmd \in RootCommandsAt(last.at, regOrder)) =>
        /\ last.res \in {"ran", "entered"}
        /\ last.cmd \in GlobalCommands =>
              /\ last.res = "ran"
              /\ last.effect = Behaviour(Root, last.cmd)

C4_Witness ==
    /\ last.cmd = "whoami"
    /\ last.depth >= 2
    /\ last.res = "ran"
    /\ last.effect = <<"core", "whoami">>

\* C9: after a command that failed (no answer from the server, a
\* non-success answer, a missing required option, an unknown command) the
\* shell it was typed in is still the current one and still running.
C9_LoopSurvivesFailure ==
    (last.fail \in Failures) =>
        /\ stack # <<>>
        /\ Len(stack) = last.depth + 1
        /\ Last(stack) = last.at

C9_Witness ==
    /\ last.fail = "transport"
    /\ last.raised
    /\ last.depth >= 2
    /\ Len(stack) = last.depth + 1

\* the URLs a harvest is to visit on endpoint srv: u, then the next link of
\* every page served, for at most fuel pages
RECURSIVE PagesFrom(_, _, _)
PagesFrom(srv, u, fuel) ==
    IF fuel = 0 THEN <<>>
    ELSE <<u>> \o (IF srv[u].status = "ok" /\ srv[u].next # NoUrl
                   THEN PagesFrom(srv, srv[u].next, fuel - 1)
                   ELSE <<>>)

\* the records of the pages at the URLs us, in that order
RECURSIVE Concat(_, _)
Concat(srv, us) ==
    IF us = <<>> THEN <<>>
    ELSE Records(Head(us), srv[Head(us)].n) \o Concat(srv, Tail(us))

\* endpoint srv serves P1..Pn successfully, a next link on all but Pn
ServesAll(srv) ==
    LET c == PagesFrom(srv, BaseUrl, MaxReq)
    IN /\ \A i \in DOMAIN c : srv[c[i]].status = "ok"
       /\ srv[Last(c)].next = NoUrl

\* C5: against an endpoint that serves P1..Pn successfully with a next link
\* on all but Pn, a harvest sends exactly n GETs, the first to the base URL
\* and every further one to the next link of the page before, and returns
\* the records of P1..Pn in that order.
C5_AllPagesInOrder ==
    ServesAll(server) =>
        LET c == PagesFrom(server, BaseUrl, MaxReq)
        IN /\ Len(reqs) <= Len(c)
           /\ reqs = SubSeq(c, 1, Len(reqs))
           /\ fpc = "returned" => /\ reqs = c
                                  /\ result = Return(Concat(server, c))

C5_Witness ==
    /\ ServesAll(server)
    /\ fpc = "returned"
    /\ Len(reqs) >= 3
    /\ Len(result.value) >= 2

\* C6: when page k > 1 returns a non-success status, the harvest returns
\* the records of P1..P(k-1) to its caller.
C6_PartialResultReturned ==
    (/\ fpc = "returned"
     /\ Len(reqs) >= 2
     /\ server[Last(reqs)].status = "error") =>
        result = Return(Concat(server, Pop(reqs)))

C8_TransportReturnsEmpty ==
    \A i \in DOMAIN reqs :
        server[reqs[i]].status = "transport" =>
            /\ i = Len(reqs)
            /\ files = {}
            /\ fpc = "returned"
            /\ result.value = <<>>

\* C10: execute of a module with options sends no request and asks for no
\* input when a required option is unset.
C10_RefusedBeforeAnyRequest ==
    (exec.cmd = "execute" /\ exec.missing) =>
        /\ exec.refused
        /\ exec.requests = 0
        /\ exec.prompts = 0

\* the first option in registry order that is required and holds no value
FirstRequiredUnset(opts) ==
    LET unset(i) == opts[i].required /\ ~Truthy(opts[i].value)
        i == CHOOSE i \in DOMAIN opts :
                 unset(i) /\ \A j \in 1..(i - 1) : ~unset(j)
    IN opts[i].name

\* C11: whatever set and reset lines came before, check reports an error
\* exactly when some required option holds no value, and the option it
\* names is the first such option in registry order.
C11_CheckIffRequiredUnset ==
    LET opts == module_options[module]
    IN /\ check_options(opts) <=> RequiredUnset(opts)
       /\ check_options(opts) =>
             check_reported(opts) = FirstRequiredUnset(opts)

C13_AllNullSetIsNoOp ==
    [][(AllNone(new_options') /\ set_call) =>
          /\ module_options' = module_options
          /\ exec'.cmd = "usage"]_vars

C13_Witness ==
    /\ exec.cmd = "usage"
    /\ AllNone(new_options)
    /\ module = "create-user"
    /\ \E i, j \in DOMAIN module_options[module] :
          /\ module_options[module][i].value.t = "str"
          /\ module_options[module][j].value.t = "list"

\* the step is a set line whose keyword arguments are new_options'
SetLine == exec.cmd = "none" /\ set_with(new_options')

\* the items of l written one after another with a comma between them
RECURSIVE Join(_)
Join(l) ==
    IF l = <<>> THEN <<>>
    ELSE IF Len(l) = 1 THEN l[1]
    ELSE l[1] \o <<",">> \o Join(Tail(l))

\* C14 as stated: a set line that gives at least one option a value stores,
\* for every option given a value that is not None, that value with the
\* surrounding whitespace trimmed, and leaves every option given None as
\* it was.
C14_StoresEveryNonNullTrimmed ==
    [][(~AllNone(new_options') /\ SetLine) =>
          \A i \in DOMAIN module_options[module] :
              LET old == module_options[module][i]
                  new == module_options'[module][i]
                  v == new_options'[old.name]
              IN IF v # NoneValue THEN new.value = Str(strip(v.s))
                 ELSE new.value = old.value]_vars

\* C14 as amended: such a set line stores, for every option given a
\* non-empty string, that string trimmed (for group_ids the list of the
\* comma-separated items of the trimmed string), and leaves as it was
\* every option given None or the empty string.
C14_StoresEveryNonEmptyTrimmed ==
    [][(~AllNone(new_options') /\ SetLine) =>
          \A i \in DOMAIN module_options[module] :
              LET old == module_options[module][i]
                  new == module_options'[module][i]
                  v == new_options'[old.name]
              IN /\ (Truthy(v) /\ old.name # "group_ids") =>
                        new.value = Str(strip(v.s))
                 /\ (Truthy(v) /\ old.name = "group_ids") =>
                        /\ new.value.t = "list"
                        /\ Join(new.value.l) = strip(v.s)
                 /\ ~Truthy(v) => new.value = old.value]_vars

C14_Witness ==
    /\ exec.cmd = "set"
    /\ \E i, j \in DOMAIN module_options[module] :
          LET o == module_options[module]
          IN /\ new_options[o[i].name] = Str(<<" ", "a", " ">>)
             /\ o[i].value = Str(<<"a">>)
             /\ new_options[o[j].name] = NoneValue
             /\ Truthy(o[j].value)

\* the value option k of the current module holds
ValueOf(k) ==
    LET o == module_options[module]
    IN o[CHOOSE i \in DOMAIN o : o[i].name = k].value

\* C15: a set line that gives group_ids a comma-separated string stores
\* the list of its items in their order ("a,b,c" gives ["a","b","c"]):
\* no item holds a comma and the items joined by commas are the string;
\* every other option given a value on that line holds a trimmed string.
C15_GroupIdsSplitInOrder ==
    [][(/\ module = "create-user"
        /\ Truthy(new_options'["group_ids"])
        /\ SetLine) =>
          LET v == new_options'["group_ids"]
              new == ValueOf("group_ids")'
          IN /\ new.t = "list"
             /\ Join(new.l) = strip(v.s)
             /\ \A n \in DOMAIN new.l :
                   \A c \in DOMAIN new.l[n] : new.l[n][c] # ","
             /\ v.s = <<"a", ",", "b", ",", "c">> =>
                   new.l = << <<"a">>, <<"b">>, <<"c">> >>
             /\ \A k \in DOMAIN new_options' \ {"group_ids"} :
                   Truthy(new_options'[k]) =>
                       /\ ValueOf(k)'.t = "str"
                       /\ ValueOf(k)'.s = strip(new_options'[k].s)]_vars

C15_Witness ==
    /\ exec.cmd = "set"
    /\ module = "create-user"
    /\ new_options["group_ids"] = Str(<<"a", ",", "b", ",", "c">>)
    /\ ValueOf("group_ids") = List(<< <<"a">>, <<"b">>, <<"c">> >>)
    /\ new_options["email"] = Str(<<" ", "a", " ">>)
    /\ ValueOf("email") = Str(<<"a">>)

\* C16: a line whose name the current shell cannot resolve is reported as
\* not found and nothing else happens: the same shells are active, the
\* same one is current and no option registry changes; `back` and `main`
\* typed at the Root are such lines.
C16_NotFoundNoTransition ==
    [][/\ (/\ Running
           /\ last'.arg = ""
           /\ last'.cmd \in Lines
           /\ last'.cmd \notin Resolvable(Current, regOrder)) =>
            /\ last'.res = "notfound"
            /\ stack' = stack
            /\ PROMPT_STACK' = PROMPT_STACK
            /\ module_options' = module_options
       /\ (Running /\ Current = Root /\ last'.cmd \in {"back", "main"}) =>
            /\ last'.res = "notfound"
            /\ stack' = stack]_vars

C16_Witness ==
    /\ last.cmd = "main"
    /\ last.res = "notfound"
    /\ last.at = Root
    /\ stack = <<Root>>
    /\ pending_main

\* C17 as stated: PROMPT_STACK is the sequence of the names of the shells
\* whose loops are active, the Root first and the current one last.
C17_PromptStackIsActiveLoops == PROMPT_STACK = stack

\* the number of PROMPT_STACK entries that belong to the first i loops
FrameEnd(i) == Returning(SubSeq(frames, 1, i), 0)

\* C17 as amended: PROMPT_STACK holds the names of the shells whose
\* invocation is in progress, the Root first: the shells whose loops are
\* active, in their order and the current one last, each preceded, when a
\* line of two names entered it, by the group named first on that line;
\* after `main` it holds the Root alone, after `exit` or `quit` nothing,
\* and a line that enters no shell leaves it as it was, also when the
\* invocation raised.
C17_PromptStackIsInvocations ==
    /\ Len(frames) = Len(stack)
    /\ Len(PROMPT_STACK) = FrameEnd(Len(stack))
    /\ \A i \in DOMAIN stack :
          /\ frames[i] \in {1, 2}
          /\ PROMPT_STACK[FrameEnd(i)] = stack[i]
          /\ frames[i] = 2 =>
                LET g == PROMPT_STACK[FrameEnd(i) - 1]
                IN g \in ModuleGroups /\ stack[i] \in commands(g)
    /\ (last.cmd = "main" /\ last.res = "stopped") => PROMPT_STACK = <<Root>>
    /\ last.cmd \in {"exit", "quit"} => PROMPT_STACK = <<>>

C17_Witness ==
    /\ last.arg = "execute"
    /\ last.raised
    /\ Len(stack) = 3
    /\ frames[2] = 2
    /\ Len(PROMPT_STACK) = 4

\* C18: below the Root the prompt shown is made of the names of the active
\* shells from the first one below the Root to the current one, each
\* followed by " > ", without the Root's name.
C18_PromptIsPathBelowRoot ==
    Len(stack) >= 2 => prompt[Current] = Tail(stack)

\* C19 as stated: a command registered on the group a module shell was
\* declared under is found when typed in that module shell.
C19_ParentCommandsResolvable ==
    (last.at \in ModuleShells /\ last.arg = ""
       /\ last.cmd \in commands(parent[last.at])) =>
        last.res # "notfound"

\* C19 as amended: the commands a subshell takes over are those of the
\* Root as of its construction and no others: a command registered only on
\* the group a module shell was declared under is not found when typed in
\* that module shell, while a command of the Root is.
C19_OnlyRootCommandsInherited ==
    (last.at \in ModuleShells /\ last.arg = "") =>
        /\ last.cmd \in commands(parent[last.at])
                         \ (commands(last.at) \cup commands(Root)) =>
              last.res = "notfound"
        /\ last.cmd \in RootCommandsAt(last.at, regOrder) =>
              last.res \in {"ran", "entered"}

C19_Witness ==
    /\ last.at = "get-users"
    /\ last.cmd = "find-admins"
    /\ last.res = "notfound"
    /\ Len(stack) = 3
    /\ stack[2] = "discovery"

\* C20: whatever is typed, a name is found at a level only if it is a
\* command of that level's own group, a command of the Root or a
\* navigation command: a command that only another module declares is
\* reported as not found.
C20_NoForeignModuleCommands ==
    (last.res \in {"ran", "entered", "stopped"} /\ last.cmd # "EOF") =>
        last.cmd \in commands(last.at) \cup commands(Root)
                       \cup NavigationCommands(last.at)

C20_Witness ==
    /\ last.at = "get-users"
    /\ last.cmd = "set"
    /\ last.res = "notfound"
    /\ Len(stack) >= 3

\* ---------------------------------------------------------------------
\* the harvest: requests, audit events and termination

\* how often the harvest has sent a GET to u
Times(u) == Cardinality({i \in DOMAIN reqs : reqs[i] = u})

\* how many of the pages received so far carried a next link to u
LinksTo(u) ==
    Cardinality({i \in DOMAIN reqs : /\ server[reqs[i]].status = "ok"
                                     /\ server[reqs[i]].next = u})

\* C21: within one harvest a GET goes to a URL only once for the start and
\* once for each next link received that points to it; a GET that failed is
\* the last GET of the harvest, an ERROR event is the last event, and the
\* harvest has ended without a result.
C21_NoRetryAboveAdapter ==
    /\ \A u \in Urls :
         Times(u) <= (IF u = BaseUrl THEN 1 ELSE 0) + LinksTo(u)
    /\ \A i \in DOMAIN reqs :
         server[reqs[i]].status # "ok" =>
             /\ i = Len(reqs)
             /\ events # <<>>
             /\ Last(events).event_type = "ERROR"
             /\ \/ fpc = "raised"
                \/ fpc = "returned" /\ result = ReturnNone

C21_Witness ==
    /\ Len(reqs) >= 2
    /\ server[Last(reqs)].status = "transport"
    /\ fpc = "raised"
    /\ Last(events).event_type = "ERROR"

\* the per-page events of the pages at the URLs us
PageEvents(srv, us) ==
    [i \in 1..Len(us) |-> Event("INFO", "retrieved", srv[us[i]].n)]

\* every GET sent so far was answered with a success status
AllOk == \A i \in DOMAIN reqs : server[reqs[i]].status = "ok"

\* C22 as stated: a harvest that returned after n successful pages has
\* emitted the n per-page events in page order and then one summary event
\* with the total, whatever the record counts of the pages.
C22_PageEventsThenSummary ==
    (fpc = "returned" /\ AllOk) =>
        events = PageEvents(server, reqs)
                     \o <<Event("INFO", "total", Len(harvested))>>

\* C22: while every page so far was successful the events are the per-page
\* events in page order; when the harvest has returned they are followed by
\* one summary event with the total if at least one record was harvested,
\* and by no summary event if every page was empty.
C22_SummaryOnlyWhenNonEmpty ==
    /\ (fpc = "loop" /\ AllOk) => events = PageEvents(server, reqs)
    /\ (fpc = "returned" /\ AllOk) =>
        events = PageEvents(server, reqs)
                     \o (IF harvested # <<>>
                         THEN <<Event("INFO", "total", Len(harvested))>>
                         ELSE <<>>)

C22_Witness ==
    /\ fpc = "returned"
    /\ AllOk
    /\ Len(reqs) >= 2
    /\ \E i \in DOMAIN reqs : server[reqs[i]].n = 0
    /\ Last(events) = Event("INFO", "total", Len(harvested))

\* a successful harvest of empty pages only: no summary event
C22_EmptyHarvest ==
    /\ fpc = "returned"
    /\ AllOk
    /\ Len(reqs) >= 2
    /\ harvested = <<>>

\* C23: whatever the state of the Elasticsearch client, a harvest ends with
\* an exception only after a GET without answer, returns what the endpoint's
\* answers determine, and has indexed every event when the client works and
\* none otherwise.
C23_SinkFailureNeverAborts ==
    /\ fpc = "raised" => server[Last(reqs)].status = "transport"
    /\ fpc = "returned" =>
         result = IF server[Last(reqs)].status = "ok"
                  THEN Return(Concat(server, reqs))
                  ELSE ReturnNone
    /\ indexed = IF es = "up" THEN events ELSE <<>>

C23_Witness ==
    /\ es = "down"
    /\ fpc = "returned"
    /\ Len(reqs) >= 2
    /\ harvested # <<>>
    /\ result = Return(Concat(server, reqs))
    /\ Len(events) = Len(reqs) + 1
    /\ indexed = <<>>

\* the chain of next links from the base URL ends
FiniteChain(srv) == Len(PagesFrom(srv, BaseUrl, MaxPages + 1)) <= MaxPages

\* the harvest has ended
Done == fpc \in {"returned", "raised"}

\* C24: a harvest of an endpoint whose chain of next links is finite ends,
\* and a harvest ends only after a page without next link or after a failed
\* GET.
C24_FiniteChainTerminates ==
    /\ FiniteChain(server) => <>Done
    /\ [](Done => \/ server[Last(reqs)].status # "ok"
                  \/ server[Last(reqs)].next = NoUrl)

C24_Witness ==
    /\ FiniteChain(server)
    /\ fpc = "returned"
    /\ Len(reqs) = MaxPages

\* ---------------------------------------------------------------------
\* the option registry along the navigation

\* C25: a step changes an option value only if it is a set or a reset line;
\* it leaves the stack of shells as it is, and every other line (entering a
\* subshell, back, main, info, an unknown command, execute) leaves every
\* registry unchanged.
C25_OnlySetAndResetChangeOptions ==
    [][module_options' # module_options =>
          /\ last'.cmd \in {"set", "reset"}
          /\ stack' = stack]_vars

\* a value set in an earlier visit of modify-policy-rule is there when the
\* shell has been entered again, this time through impact
C25_Witness ==
    /\ stack = <<Root, "impact", "modify-policy-rule">>
    /\ last.cmd = "modify-policy-rule"
    /\ last.res = "entered"
    /\ exec.cmd = "set"
    /\ module_options["modify-policy-rule"][1].value # NoneValue

\* ---------------------------------------------------------------------
\* the temporary change of modify-policy-rule

\* C26: an execute of modify-policy-rule leaves the policy rule with the
\* name it had before the execute.
C26_NameRestoredAfterExecute ==
    [][exec'.cmd = "execute" => rule_name' = rule_name]_vars

\* ---------------------------------------------------------------------
\* the end of a subshell loop

\* the lines that end a loop
Leaving == {"back", "main", "exit", "quit", "EOF"}

\* C27: a step ends a loop only if its line was back, main, exit, quit or
\* the end of input; in particular a line of another kind typed in a
\* subshell while pending_main is still set from an earlier main ends no
\* loop.
C27_LoopEndsOnlyOnLeaving ==
    [][/\ Len(stack') < Len(stack) => last'.cmd \in Leaving
       /\ (pending_main /\ Len(stack) >= 2 /\ last'.cmd \notin Leaving) =>
              /\ Len(stack') >= Len(stack)
              /\ SubSeq(stack', 1, Len(stack)) = stack]_vars

\* a subshell entered from the Root after a main, pending_main still set
C27_Witness ==
    /\ pending_main
    /\ Len(stack) = 2
    /\ last.cmd \in ModuleGroups
    /\ last.res = "entered"
    /\ last.at = Root

\* ---------------------------------------------------------------------
\* a module group entered from inside a subshell

\* C28: a module group typed in a subshell is pushed on top of the shells
\* and of the prompt stack as they are; back typed in a group that was
\* entered from a subshell returns to that subshell, and main typed there
\* returns to the Root.
C28_InheritedGroupPushesLevel ==
    [][/\ (/\ Len(stack) >= 2
           /\ last'.res = "entered"
           /\ last'.cmd \in ModuleGroups
           /\ last'.arg = "") =>
              /\ stack' = Append(stack, last'.cmd)
              /\ PROMPT_STACK' = Append(PROMPT_STACK, last'.cmd)
       /\ (/\ Len(stack) >= 3
           /\ Current \in ModuleGroups
           /\ last'.cmd = "back") =>
              /\ stack' = Pop(stack)
              /\ stack' # <<Root>>
       /\ (/\ Len(stack) >= 3
           /\ Current \in ModuleGroups
           /\ last'.cmd = "main") =>
              stack' = <<Root>>]_vars

\* back was typed in a group entered from a subshell: that subshell is the
\* current one again
C28_Witness ==
    /\ last.cmd = "back"
    /\ last.at \in ModuleGroups
    /\ last.depth >= 2
    /\ Len(stack) = last.depth
    /\ Current \in SubShells

\* ---------------------------------------------------------------------
\* the prompt of the module shells mounted under two groups

\* the module shells impact.add_command mounts a second time
MountedTwice == {n \in ModuleShells : n \in commands("impact")}

\* C29: while a module shell mounted under impact and under its own group
\* is the current one, the group its prompt names is the group it was
\* entered through, the shell below it.
C29_PromptNamesEntryGroup ==
    (Len(stack) >= 3 /\ Current \in MountedTwice) =>
        prompt[Current] = <<Root, stack[Len(stack) - 1], Current>>

\* ---------------------------------------------------------------------
\* the credentials of the organization object

\* C30: the organization object holds the URL and the token of the profile
\* that is loaded.
C30_OrgUsesLoadedProfile ==
    /\ obj.okta.base_url = obj.base_url
    /\ obj.okta.api_token = obj.api_token

====
